---- MODULE Spec2Model ----
(***************************************************************************)
(* EPT'Scope (STM_32/main.py): the serial ingestion worker, the shared     *)
(* sample buffer (self.data / self.timestamps guarded by self.data_lock),  *)
(* the acquisition handlers (start_signal, pause_signal, closeEvent) and   *)
(* the consumers of the buffer (update_plot, apply_filter, compute_fft,    *)
(* clear_screen, open_signal).                                             *)
(*                                                                         *)
(* The GUI thread runs one handler at a time (mpc is its position); the    *)
(* read_data threads interleave with it statement by statement.            *)
(* Voltages are kept in millivolts, timestamps in clock ticks.  Every      *)
(* buffered element carries the number of the append that produced it      *)
(* (seq), a history tag that the program does not store.                   *)
(***************************************************************************)
EXTENDS Integers, Sequences, FiniteSets, TLC

\* ---------------------------------------------------------------- bounds
\* max_data_points is 1000 in read_data (main.py:397); the model runs it small.
max_data_points == 2
\* threads / serial handles one run may create (one per successful start)
MaxWorkers == 2
\* samples appended in one run
MaxAppends == 4
\* clock ticks in one run
MaxClock == 1
\* apply_filter invocations in one run
MaxFilters == 1
\* moving-average inputs explored for the pure function
MaxMaLen == 5
MaxMaWindow == 5
\* EPTScope: recordings opened, rows written to one recording, and open_signal
\* runs in one run
MaxFiles == 2
MaxRows == 2
MaxImports == 2

\* ------------------------------------------------------- program constants
vref_mV == 3300
max_adc_value == 4095
offset_mV == 600
window_size == 5
\* order=4 in apply_filter's call of low_pass_filter
filter_order == 4

NoPorts == "No ports available"
Ports == {"COM3"}

\* ------------------------------------------------------------- helpers
Min(a, b) == IF a <= b THEN a ELSE b
Max(a, b) == IF a >= b THEN a ELSE b

RECURSIVE SumRange(_, _, _)
SumRange(s, i, j) == IF i > j THEN 0 ELSE s[i] + SumRange(s, i + 1, j)

Tail1(s) == IF s = <<>> THEN <<>> ELSE Tail(s)

\* ------------------------------------------------ frames read from the port
\* A frame is what readline() returned: [decodes, runs].  decodes is FALSE for
\* bytes that are not UTF-8; runs are the pieces of the stripped text in order,
\* a natural number for a run of decimal digits and -1 for any other text.
\* The empty read after a timeout is the frame with no runs.
Frame(ok, runs) == [decodes |-> ok, runs |-> runs]
Frames == { Frame(FALSE, <<-1>>), Frame(TRUE, <<>>), Frame(TRUE, <<-1>>),
            Frame(TRUE, <<-1, 7, -1, 4095>>) }

\* re.findall(r"\d+", line) mapped through int
findall_digits(runs) == SelectSeq(runs, LAMBDA r : r >= 0)

\* voltage = (adc_value / max_adc_value) * vref - 0.6, in millivolts
voltage_of(adc_value) == (adc_value * vref_mV) \div max_adc_value - offset_mV

\* --------------------------------------------------------- moving average
\* np.convolve(data, np.ones(w) / w, mode='valid'): numpy swaps the operands
\* when the kernel is the longer one, so the result has
\* max(n, w) - min(n, w) + 1 entries; an empty input raises ValueError.
\* The result is [err, out]; each entry of out is the rational <<sum, w>>.
moving_average(d, w) ==
    LET n == Len(d) IN
    IF n = 0 THEN [err |-> "ValueError", out |-> <<>>]
    ELSE [err |-> "none",
          out |-> IF n >= w
                  THEN [i \in 1..(n - w + 1) |-> <<SumRange(d, i, i + w - 1), w>>]
                  ELSE [i \in 1..(w - n + 1) |-> <<SumRange(d, 1, n), w>>]]

VARIABLES
    com_select,     \* currentText() of the port selector
    ser,            \* self.ser: 0 is None, k > 0 the k-th Serial object
    openSer,        \* the Serial objects whose port is open
    nOpened,        \* Serial objects created so far
    is_running,     \* self.is_running
    timer_active,   \* self.timer is started
    data,           \* self.data: sequence of [seq, v, f]
    timestamps,     \* self.timestamps: sequence of [seq, t]
    data_lock,      \* 0 free, w > 0 held by worker w
    curve,          \* <<len x, len y>> last given to plot_curve.setData
    mpc,            \* position of the GUI thread
    m_from,         \* history: is_running when the running start was called
    lastOp,         \* history: the last of start, pause, close, read error to complete
    signal_data,    \* apply_filter's snapshot of self.data
    nFilters,       \* apply_filter runs so far
    nAppends,       \* history: appends so far
    now,            \* datetime.now()
    wpc,            \* position of each read_data thread
    w_start,        \* start_time of each thread
    w_h,            \* the Serial object a thread's readline() is running on
    w_t,            \* timestamp computed by a thread for its pending sample
    w_v,            \* voltage computed by a thread for its pending sample
    ma_in, ma_w, ma_out,  \* moving_average as a pure function: input, window, result
    \* ---- EPTscope.py (class EPTScope), a program of its own
    buffer_t,       \* self.buffer_t
    buffer_y,       \* self.buffer_y
    ept_is_running, \* self.is_running of EPTScope
    record_fh,      \* self.record_fh: 0 is None, f > 0 the csv.writer on file f
    rec_checked,    \* self.rec_btn.isChecked()
    files,          \* the files opened by toggle_recording: [open, disk, pending]
    nFiles,         \* files opened so far
    ept_curve,      \* <<len x, len y>> last given to curve.setData
    epc,            \* position of the GUI thread of EPTScope
    armed_in,       \* history: y of the samples in the buffer at the arm, then of those
                    \* that entered it since
    imported_from,  \* history: the recording the buffer was last loaded from (0: none)
    nImports        \* open_signal runs of EPTScope so far

bufVars == <<data, timestamps, data_lock>>
ctlVars == <<com_select, ser, openSer, nOpened, is_running, timer_active>>
guiVars == <<curve, mpc, m_from, lastOp, signal_data, nFilters>>
thrVars == <<wpc, w_start, w_h, w_t, w_v>>
maVars  == <<ma_in, ma_w, ma_out>>
eptVars == <<buffer_t, buffer_y, ept_is_running, record_fh, rec_checked, files,
             nFiles, ept_curve, epc, armed_in, imported_from, nImports>>
vars == <<bufVars, ctlVars, guiVars, thrVars, nAppends, now, maVars, eptVars>>

Workers == 1..MaxWorkers

\* __init__ and initUI: the selector built at line 51 is filled by
\* refresh_ports (line 61) and then replaced by a new, empty QComboBox at
\* line 179, so the selector starts with no item: currentText() is "".
InitProgram ==
    /\ com_select = ""
    /\ ser = 0
    /\ openSer = {}
    /\ nOpened = 0
    /\ is_running = FALSE
    /\ timer_active = FALSE
    /\ data = <<>>
    /\ timestamps = <<>>
    /\ data_lock = 0
    /\ curve = <<0, 0>>
    /\ mpc = "idle"
    /\ m_from = FALSE
    /\ lastOp = "none"
    /\ signal_data = <<>>
    /\ nFilters = 0
    /\ nAppends = 0
    /\ now = 0
    /\ wpc = [w \in Workers |-> "none"]
    /\ w_start = [w \in Workers |-> 0]
    /\ w_h = [w \in Workers |-> 0]
    /\ w_t = [w \in Workers |-> 0]
    /\ w_v = [w \in Workers |-> 0]

\* EPTscope.py lines 122-133: EPTScope.__init__; rec_btn is created unchecked
\* (line 249)
InitEPTScope ==
    /\ buffer_t = <<>>
    /\ buffer_y = <<>>
    /\ ept_is_running = FALSE
    /\ record_fh = 0
    /\ rec_checked = FALSE
    /\ files = [f \in 1..MaxFiles |-> [open |-> FALSE, disk |-> <<>>, pending |-> <<>>]]
    /\ nFiles = 0
    /\ ept_curve = <<0, 0>>
    /\ epc = "idle"
    /\ armed_in = <<>>
    /\ imported_from = 0
    /\ nImports = 0

Init ==
    /\ InitProgram
    /\ InitEPTScope
    /\ ma_in = <<>>
    /\ ma_w = 1
    /\ ma_out = [err |-> "idle", out |-> <<>>]


\* =================================================== read_data (worker thread)
\* wpc: "none" not started, "init" started, "head" at the while test, "read"
\* inside readline(), "invalid" in the ValueError handler, "lock" waiting for
\* data_lock with a sample in hand,
\* "app_data" / "evict" inside the critical section, "err_close" in the
\* SerialException handler after is_running = False, "done" returned or died.
Alive(w) == wpc[w] \notin {"none", "done"}

\* lines 397-400: start_time = datetime.now()
thread_begin(w) ==
    /\ wpc[w] = "init"
    /\ w_start' = [w_start EXCEPT ![w] = now]
    /\ wpc' = [wpc EXCEPT ![w] = "head"]
    /\ UNCHANGED <<bufVars, ctlVars, guiVars, w_h, w_t, w_v, nAppends, now, maVars, eptVars>>

\* loop_head with "while True" for "while self.is_running"
loop_head_ignores_flag(w) ==
    /\ wpc[w] = "head"
    /\ \/ /\ ser \notin openSer
          /\ UNCHANGED <<wpc, w_h>>
       \/ /\ ser \in openSer
          /\ w_h' = [w_h EXCEPT ![w] = ser]
          /\ wpc' = [wpc EXCEPT ![w] = "read"]
    /\ UNCHANGED <<bufVars, ctlVars, guiVars, w_start, w_t, w_v, nAppends, now, maVars, eptVars>>

\* lines 402-403: while self.is_running / if self.ser and self.ser.isOpen()
loop_head(w) ==
    /\ wpc[w] = "head"
    /\ \/ /\ ~is_running
          /\ wpc' = [wpc EXCEPT ![w] = "done"]
          /\ UNCHANGED w_h
       \/ /\ is_running
          /\ ser \notin openSer
          /\ UNCHANGED <<wpc, w_h>>
       \/ /\ is_running
          /\ ser \in openSer
          /\ w_h' = [w_h EXCEPT ![w] = ser]
          /\ wpc' = [wpc EXCEPT ![w] = "read"]
    /\ UNCHANGED <<bufVars, ctlVars, guiVars, w_start, w_t, w_v, nAppends, now, maVars, eptVars>>

\* lines 405-413: a frame arrives on an open port; decode, parse, convert, stamp
read_frame(w) ==
    /\ wpc[w] = "read"
    /\ w_h[w] \in openSer
    /\ \E frame \in Frames :
         LET numbers == findall_digits(frame.runs) IN
         IF frame.decodes /\ numbers # <<>>
         THEN /\ nAppends + Cardinality({x \in Workers : wpc[x] \in {"lock"}}) < MaxAppends
              /\ w_v' = [w_v EXCEPT ![w] = voltage_of(numbers[Len(numbers)])]
              /\ w_t' = [w_t EXCEPT ![w] = now - w_start[w]]
              /\ wpc' = [wpc EXCEPT ![w] = "lock"]
         ELSE \* UnicodeDecodeError is a ValueError (line 421); no number: next turn
              /\ wpc' = [wpc EXCEPT ![w] = IF frame.decodes THEN "head" ELSE "invalid"]
              /\ UNCHANGED <<w_v, w_t>>
    /\ w_h' = [w_h EXCEPT ![w] = 0]
    /\ UNCHANGED <<bufVars, ctlVars, guiVars, w_start, nAppends, now, maVars, eptVars>>

\* invalid_data with the ValueError ending the thread
invalid_data_ends_thread(w) ==
    /\ wpc[w] = "invalid"
    /\ wpc' = [wpc EXCEPT ![w] = "done"]
    /\ UNCHANGED <<bufVars, ctlVars, guiVars, w_start, w_h, w_t, w_v, nAppends, now,
                   maVars, eptVars>>

\* lines 421-422: except ValueError: print("Invalid data received from serial
\* port."), and the loop goes on
invalid_data(w) ==
    /\ wpc[w] = "invalid"
    /\ wpc' = [wpc EXCEPT ![w] = "head"]
    /\ UNCHANGED <<bufVars, ctlVars, guiVars, w_start, w_h, w_t, w_v, nAppends, now,
                   maVars, eptVars>>

\* lines 423-425: readline() raises SerialException (an I/O error, or the port
\* was closed under the read): is_running = False
read_error(w) ==
    /\ wpc[w] = "read"
    /\ is_running' = FALSE
    /\ wpc' = [wpc EXCEPT ![w] = "err_close"]
    /\ w_h' = [w_h EXCEPT ![w] = 0]
    /\ UNCHANGED <<bufVars, com_select, ser, openSer, nOpened, timer_active,
                   guiVars, w_start, w_t, w_v, nAppends, now, maVars, eptVars>>

\* line 405 on a port closed under the read: pyserial may also raise an error
\* that is neither ValueError nor SerialException; the thread dies.
read_crash(w) ==
    /\ wpc[w] = "read"
    /\ w_h[w] \notin openSer
    /\ wpc' = [wpc EXCEPT ![w] = "done"]
    /\ w_h' = [w_h EXCEPT ![w] = 0]
    /\ UNCHANGED <<bufVars, ctlVars, guiVars, w_start, w_t, w_v, nAppends, now, maVars, eptVars>>

\* lines 426-428: self.timer.stop() from the worker thread (Qt does not define
\* stopping a timer from another thread: it may or may not take effect), then
\* close whatever self.ser is now
error_close(w) ==
    /\ wpc[w] = "err_close"
    /\ \E stops \in BOOLEAN : timer_active' = (timer_active /\ ~stops)
    /\ openSer' = openSer \ {ser}
    /\ wpc' = [wpc EXCEPT ![w] = "head"]
    /\ lastOp' = "error"
    /\ UNCHANGED <<bufVars, com_select, ser, nOpened, is_running, curve, mpc,
                   m_from, signal_data, nFilters, w_start, w_h, w_t, w_v,
                   nAppends, now, maVars, eptVars>>

\* lines 415-416: with self.data_lock: self.timestamps.append(timestamp)
append_timestamp(w) ==
    /\ wpc[w] = "lock"
    /\ data_lock = 0
    /\ data_lock' = w
    /\ nAppends' = nAppends + 1
    /\ timestamps' = Append(timestamps, [seq |-> nAppends + 1, t |-> w_t[w]])
    /\ wpc' = [wpc EXCEPT ![w] = "app_data"]
    /\ UNCHANGED <<data, ctlVars, guiVars, w_start, w_h, w_t, w_v, now, maVars, eptVars>>

\* line 417: self.data.append(voltage)
append_data(w) ==
    /\ wpc[w] = "app_data"
    /\ data' = Append(data, [seq |-> nAppends, v |-> w_v[w], f |-> 0])
    /\ wpc' = [wpc EXCEPT ![w] = "evict"]
    /\ w_t' = [w_t EXCEPT ![w] = 0]
    /\ w_v' = [w_v EXCEPT ![w] = 0]
    /\ UNCHANGED <<timestamps, data_lock, ctlVars, guiVars, w_start, w_h,
                   nAppends, now, maVars, eptVars>>

\* evict_oldest with pop() for pop(0): the newest entry is dropped
evict_newest(w) ==
    /\ wpc[w] = "evict"
    /\ IF Len(data) > max_data_points
       THEN IF timestamps = <<>>
            THEN /\ wpc' = [wpc EXCEPT ![w] = "done"]
                 /\ UNCHANGED <<data, timestamps>>
            ELSE /\ timestamps' = SubSeq(timestamps, 1, Len(timestamps) - 1)
                 /\ data' = SubSeq(data, 1, Len(data) - 1)
                 /\ wpc' = [wpc EXCEPT ![w] = "head"]
       ELSE /\ wpc' = [wpc EXCEPT ![w] = "head"]
            /\ UNCHANGED <<data, timestamps>>
    /\ data_lock' = 0
    /\ UNCHANGED <<ctlVars, guiVars, w_start, w_h, w_t, w_v, nAppends, now, maVars, eptVars>>

\* lines 418-420: if len(self.data) > max_data_points: pop(0) from both lists;
\* leaving the with block releases the lock.  pop(0) on an empty timestamps
\* list raises IndexError, which ends the thread (the lock is still released).
evict_oldest(w) ==
    /\ wpc[w] = "evict"
    /\ IF Len(data) > max_data_points
       THEN IF timestamps = <<>>
            THEN /\ wpc' = [wpc EXCEPT ![w] = "done"]
                 /\ UNCHANGED <<data, timestamps>>
            ELSE /\ timestamps' = Tail(timestamps)
                 /\ data' = Tail(data)
                 /\ wpc' = [wpc EXCEPT ![w] = "head"]
       ELSE /\ wpc' = [wpc EXCEPT ![w] = "head"]
            /\ UNCHANGED <<data, timestamps>>
    /\ data_lock' = 0
    /\ UNCHANGED <<ctlVars, guiVars, w_start, w_h, w_t, w_v, nAppends, now, maVars, eptVars>>

read_data(w) ==
    \/ thread_begin(w)
    \/ loop_head(w)
    \/ read_frame(w)
    \/ invalid_data(w)
    \/ read_error(w)
    \/ read_crash(w)
    \/ error_close(w)
    \/ append_timestamp(w)
    \/ append_data(w)
    \/ evict_oldest(w)


\* ======================================================= GUI thread handlers
\* mpc: "idle" between handlers; "warn_no_port" / "warn_no_signal" while the
\* modal QMessageBox.warning of start_signal / apply_filter is shown;
\* "start_failed" in the except clause of start_signal (line 382);
\* "start_data", "start_ts", "start_thread" inside start_signal; "pause_close"
\* inside pause_signal; "close_close" inside closeEvent; "filter_wb",
\* "filter_plot" inside apply_filter; "exception" when an exception left a
\* slot; "closed" after the window was closed.
\* A modal dialog runs the event loop: timers fire, buttons do not.
\* A handler is an operation that can be called whenever the GUI thread is
\* between handlers: its guard is what its own code tests.  The enabling of
\* the widgets (lines 279, 391-394: pause_signal disables pause_btn and
\* enables start_btn; start_signal touches neither) is presentation and is
\* not part of the state.
Dialogs == {"warn_no_port", "warn_no_signal"}
EventLoop == mpc \in {"idle"} \cup Dialogs

\* lines 249-279, on port_timer: the selector shows the ports found, keeping
\* the current one if it is still there, or the placeholder when there is none
refresh_ports ==
    /\ EventLoop
    /\ \E available_ports \in SUBSET Ports :
         com_select' = IF available_ports # {}
                       THEN IF com_select \in available_ports
                            THEN com_select
                            ELSE CHOOSE p \in available_ports : TRUE
                       ELSE NoPorts
    /\ UNCHANGED <<bufVars, ser, openSer, nOpened, is_running, timer_active,
                   guiVars, thrVars, nAppends, now, maVars, eptVars>>

\* lines 363-374: the placeholder is refused with a warning dialog; otherwise
\* serial.Serial(...) either raises SerialException (line 381: printed, nothing
\* else happens; an empty port name always raises) or returns the open port,
\* which becomes self.ser, and is_running is set
start_signal ==
    /\ mpc = "idle"
    /\ \/ /\ com_select = NoPorts
          /\ mpc' = "warn_no_port"
          /\ UNCHANGED <<ctlVars, m_from>>
       \/ /\ com_select # NoPorts
          /\ mpc' = "start_failed"
          /\ UNCHANGED <<ctlVars, m_from>>
       \/ /\ com_select \in Ports
          /\ nOpened < MaxWorkers
          /\ nOpened' = nOpened + 1
          /\ ser' = nOpened + 1
          /\ openSer' = openSer \cup {nOpened + 1}
          /\ is_running' = TRUE
          /\ m_from' = is_running
          /\ mpc' = "start_data"
          /\ UNCHANGED <<com_select, timer_active>>
    /\ UNCHANGED <<bufVars, curve, lastOp, signal_data, nFilters, thrVars,
                   nAppends, now, maVars, eptVars>>

\* start_failed with the buffer reset in the except clause
start_failed_resets ==
    /\ mpc = "start_failed"
    /\ mpc' = "idle"
    /\ data' = <<>>
    /\ timestamps' = <<>>
    /\ UNCHANGED <<data_lock, ctlVars, curve, m_from, lastOp, signal_data, nFilters,
                   thrVars, nAppends, now, maVars, eptVars>>

\* line 382: print(f"Failed to open serial port: {e}"), and the handler returns
start_failed ==
    /\ mpc = "start_failed"
    /\ mpc' = "idle"
    /\ UNCHANGED <<bufVars, ctlVars, curve, m_from, lastOp, signal_data, nFilters,
                   thrVars, nAppends, now, maVars, eptVars>>

\* the user closes the warning dialog
dismiss_warning ==
    /\ mpc \in Dialogs
    /\ mpc' = "idle"
    /\ UNCHANGED <<bufVars, ctlVars, curve, m_from, lastOp, signal_data, nFilters,
                   thrVars, nAppends, now, maVars, eptVars>>

\* line 375: self.data = []
start_reset_data ==
    /\ mpc = "start_data"
    /\ data' = <<>>
    /\ mpc' = "start_ts"
    /\ UNCHANGED <<timestamps, data_lock, ctlVars, curve, m_from, lastOp,
                   signal_data, nFilters, thrVars, nAppends, now, maVars, eptVars>>

\* line 376: self.timestamps = []
start_reset_timestamps ==
    /\ mpc = "start_ts"
    /\ timestamps' = <<>>
    /\ mpc' = "start_thread"
    /\ UNCHANGED <<data, data_lock, ctlVars, curve, m_from, lastOp,
                   signal_data, nFilters, thrVars, nAppends, now, maVars, eptVars>>

\* lines 377-380: self.timer.start(50); threading.Thread(target=self.read_data).start()
start_thread ==
    /\ mpc = "start_thread"
    /\ timer_active' = TRUE
    /\ wpc' = [wpc EXCEPT ![nOpened] = "init"]
    /\ mpc' = "idle"
    /\ m_from' = FALSE
    /\ lastOp' = "start"
    /\ UNCHANGED <<bufVars, com_select, ser, openSer, nOpened, is_running, curve,
                   signal_data, nFilters, w_start, w_h, w_t, w_v,
                   nAppends, now, maVars, eptVars>>

\* pause_signal with the flag toggled instead of lowered
pause_toggle ==
    /\ mpc = "idle"
    /\ is_running' = ~is_running
    /\ timer_active' = FALSE
    /\ mpc' = "pause_close"
    /\ UNCHANGED <<bufVars, com_select, ser, openSer, nOpened, curve, m_from,
                   lastOp, signal_data, nFilters, thrVars, nAppends, now, maVars, eptVars>>

\* lines 385-386: self.is_running = False; self.timer.stop()
pause_signal ==
    /\ mpc = "idle"
    /\ is_running' = FALSE
    /\ timer_active' = FALSE
    /\ mpc' = "pause_close"
    /\ UNCHANGED <<bufVars, com_select, ser, openSer, nOpened, curve, m_from,
                   lastOp, signal_data, nFilters, thrVars, nAppends, now, maVars, eptVars>>

\* lines 388-389: if self.ser and self.ser.isOpen(): self.ser.close()
pause_close ==
    /\ mpc = "pause_close"
    /\ openSer' = openSer \ {ser}
    /\ mpc' = "idle"
    /\ lastOp' = "pause"
    /\ UNCHANGED <<bufVars, com_select, ser, nOpened, is_running, timer_active,
                   curve, m_from, signal_data, nFilters, thrVars,
                   nAppends, now, maVars, eptVars>>

\* line 605: self.is_running = False
closeEvent ==
    /\ mpc = "idle"
    /\ is_running' = FALSE
    /\ mpc' = "close_close"
    /\ UNCHANGED <<bufVars, com_select, ser, openSer, nOpened, timer_active, curve,
                   m_from, lastOp, signal_data, nFilters, thrVars, nAppends, now,
                   maVars, eptVars>>

\* lines 606-608: close the port if open; the window closes
close_close ==
    /\ mpc = "close_close"
    /\ openSer' = openSer \ {ser}
    /\ mpc' = "closed"
    /\ lastOp' = "close"
    /\ UNCHANGED <<bufVars, com_select, ser, nOpened, is_running, timer_active,
                   curve, m_from, signal_data, nFilters, thrVars,
                   nAppends, now, maVars, eptVars>>

\* ------------------------------------------------------ buffer consumers
values_of(d) == [i \in 1..Len(d) |-> d[i].v]

\* lines 433-443: what update_plot hands to plot_curve.setData, as
\* <<len(x), len(y)>>: x is trimmed_timestamps[:len(smoothed_data)], y is
\* smoothed_data; nothing is handed over when either list is empty
plot_lengths(d, ts) ==
    IF d # <<>> /\ ts # <<>>
    THEN LET min_length == Min(Len(d), Len(ts))
             trimmed_data == SubSeq(d, 1, min_length)
             smoothed_data == moving_average(values_of(trimmed_data), window_size).out
         IN  <<Min(min_length, Len(smoothed_data)), Len(smoothed_data)>>
    ELSE curve

\* lines 431-447, on the display timer: with self.data_lock: ...
update_plot ==
    /\ EventLoop
    /\ timer_active
    /\ data_lock = 0
    /\ curve' = plot_lengths(data, timestamps)
    /\ UNCHANGED <<bufVars, ctlVars, mpc, m_from, lastOp, signal_data,
                   nFilters, thrVars, nAppends, now, maVars, eptVars>>

\* lines 294-299: lfilter(b, a, data) returns one output per input; the
\* filtered value is kept as the input value with its count of filter passes
low_pass_filter(d) ==
    [i \in 1..Len(d) |-> [seq |-> d[i].seq, v |-> d[i].v, f |-> d[i].f + 1]]

\* lines 302-308: no signal: warning dialog; else snapshot self.data under the lock
apply_filter ==
    /\ mpc = "idle"
    /\ IF data = <<>>
       THEN /\ mpc' = "warn_no_signal"
            /\ UNCHANGED <<signal_data, nFilters>>
       ELSE /\ data_lock = 0
            /\ nFilters < MaxFilters
            /\ nFilters' = nFilters + 1
            /\ signal_data' = data
            /\ mpc' = "filter_wb"
    /\ UNCHANGED <<bufVars, ctlVars, curve, m_from, lastOp, thrVars, nAppends,
                   now, maVars, eptVars>>

\* lines 322-325: with self.data_lock: self.data = filtered_data.tolist()
filter_write_back ==
    /\ mpc = "filter_wb"
    /\ data_lock = 0
    /\ data' = low_pass_filter(signal_data)
    /\ signal_data' = <<>>
    /\ mpc' = "filter_plot"
    /\ UNCHANGED <<timestamps, data_lock, ctlVars, curve, m_from, lastOp,
                   nFilters, thrVars, nAppends, now, maVars, eptVars>>

\* line 327: self.update_plot()
filter_update_plot ==
    /\ mpc = "filter_plot"
    /\ data_lock = 0
    /\ curve' = plot_lengths(data, timestamps)
    /\ mpc' = "idle"
    /\ UNCHANGED <<bufVars, ctlVars, m_from, lastOp, signal_data,
                   nFilters, thrVars, nAppends, now, maVars, eptVars>>

\* lines 345-353, the answer being Yes: both lists emptied under the lock, the
\* plot cleared
clear_screen ==
    /\ mpc = "idle"
    /\ data_lock = 0
    /\ data' = <<>>
    /\ timestamps' = <<>>
    /\ curve' = <<0, 0>>
    /\ UNCHANGED <<data_lock, ctlVars, mpc, m_from, lastOp, signal_data, nFilters,
                   thrVars, nAppends, now, maVars, eptVars>>

\* lines 499-510, no lock taken: with data present it indexes
\* self.timestamps[1], an IndexError when there are fewer than two timestamps;
\* otherwise the spectrum is drawn and no field changes
compute_fft ==
    /\ mpc = "idle"
    /\ mpc' = IF Len(data) > 0 /\ Len(timestamps) < 2 THEN "exception" ELSE mpc
    /\ UNCHANGED <<bufVars, ctlVars, curve, m_from, lastOp, signal_data,
                   nFilters, thrVars, nAppends, now, maVars, eptVars>>

\* the traceback of an exception that left a slot is printed and the event
\* loop goes on
slot_exception ==
    /\ mpc = "exception"
    /\ mpc' = "idle"
    /\ UNCHANGED <<bufVars, ctlVars, curve, m_from, lastOp, signal_data, nFilters,
                   thrVars, nAppends, now, maVars, eptVars>>

\* A line of an imported file: <<"row", t, v>> two numeric fields, <<"skip">> a
\* line that does not split in two, <<"bad">> two fields that are not numbers.
ImportFiles ==
    { << <<"skip">>, <<"row", 0, 0>> >>,
      [i \in 1..(max_data_points + 1) |-> <<"row", i, 0>>],
      << <<"row", 0, 0>>, <<"bad">> >> }

parse_rows(file) == SelectSeq(file, LAMBDA l : l[1] = "row")

\* lines 542-562: every two-field line is parsed (a field that is no number
\* raises, the error is printed and nothing is loaded); then both lists are
\* replaced under the lock and the loaded signal is plotted.  Row i of the
\* file gets the tag -i.
open_signal ==
    /\ mpc = "idle"
    /\ \E file \in ImportFiles :
         IF \E i \in 1..Len(file) : file[i][1] = "bad"
         THEN UNCHANGED <<data, timestamps, curve>>
         ELSE LET rows == parse_rows(file) IN
              /\ data_lock = 0
              /\ timestamps' = [i \in 1..Len(rows) |-> [seq |-> 0 - i, t |-> rows[i][2]]]
              /\ data' = [i \in 1..Len(rows) |-> [seq |-> 0 - i, v |-> rows[i][3], f |-> 0]]
              /\ curve' = <<Len(rows), Len(rows)>>
    /\ UNCHANGED <<data_lock, ctlVars, mpc, m_from, lastOp, signal_data, nFilters,
                   thrVars, nAppends, now, maVars, eptVars>>

\* ------------------------------------------------------------ the program
Next ==
    \/ refresh_ports
    \/ start_signal
    \/ start_failed
    \/ dismiss_warning
    \/ start_reset_data
    \/ start_reset_timestamps
    \/ start_thread
    \/ pause_signal
    \/ pause_close
    \/ closeEvent
    \/ close_close
    \/ update_plot
    \/ apply_filter
    \/ filter_write_back
    \/ filter_update_plot
    \/ clear_screen
    \/ compute_fft
    \/ slot_exception
    \/ open_signal
    \/ \E w \in Workers : read_data(w)

\* The program with every sample taken within one tick of the clock.
Spec == Init /\ [][Next]_vars

\* datetime.now() advances
clock_tick ==
    /\ now < MaxClock
    /\ now' = now + 1
    /\ UNCHANGED <<bufVars, ctlVars, guiVars, thrVars, nAppends, maVars, eptVars>>

\* The program with the clock running.
NextClock == Next \/ clock_tick
SpecClock == Init /\ [][NextClock]_vars

\* ------------------------------------------ acquisition handlers and workers
\* start_signal, pause_signal, closeEvent and the read_data threads alone (no
\* consumer of the buffer runs), with the clock frozen ...
NextAcq ==
    \/ refresh_ports
    \/ start_signal
    \/ start_failed
    \/ dismiss_warning
    \/ start_reset_data
    \/ start_reset_timestamps
    \/ start_thread
    \/ pause_signal
    \/ pause_close
    \/ closeEvent
    \/ close_close
    \/ \E w \in Workers : read_data(w)
SpecAcq == Init /\ [][NextAcq]_vars

\* ... with every read_data thread scheduled again and again: a thread that
\* can take a step is not left waiting for ever (readline() returns within
\* its timeout of 1 s, data_lock is held for three statements) ...
SpecAcqFair == SpecAcq /\ \A w \in Workers : WF_vars(read_data(w))

\* ... and with the clock running.
NextAcqClock == NextAcq \/ clock_tick
SpecAcqClock == Init /\ [][NextAcqClock]_vars

\* ------------------------------------------- moving_average on its own
\* The inputs update_plot can pass (line 433: the lists are not empty), and
\* every window up to MaxMaWindow.
MaValues == {1, 2, 3}
MaInputs == UNION { [1..n -> MaValues] : n \in 1..MaxMaLen }

InitMA ==
    /\ InitProgram
    /\ InitEPTScope
    /\ ma_in \in MaInputs
    /\ ma_w \in 1..MaxMaWindow
    /\ ma_out = [err |-> "idle", out |-> <<>>]

run_moving_average ==
    /\ ma_out.err = "idle"
    /\ ma_out' = moving_average(ma_in, ma_w)
    /\ UNCHANGED <<bufVars, ctlVars, guiVars, thrVars, nAppends, now, ma_in, ma_w,
                   eptVars>>

SpecMA == InitMA /\ [][run_moving_average]_vars


\* --------------------------------------------- one session, one worker
\* The state a first start_signal leaves (port selected, port open, flag up,
\* lists empty, timer started, thread 1 started), then thread 1 and the clock
\* alone: no handler runs.
InitSingle ==
    /\ com_select \in Ports
    /\ ser = 1
    /\ openSer = {1}
    /\ nOpened = 1
    /\ is_running = TRUE
    /\ timer_active = TRUE
    /\ data = <<>>
    /\ timestamps = <<>>
    /\ data_lock = 0
    /\ curve = <<0, 0>>
    /\ mpc = "idle"
    /\ m_from = FALSE
    /\ lastOp = "start"
    /\ signal_data = <<>>
    /\ nFilters = 0
    /\ nAppends = 0
    /\ now = 0
    /\ wpc = [w \in Workers |-> IF w = 1 THEN "init" ELSE "none"]
    /\ w_start = [w \in Workers |-> 0]
    /\ w_h = [w \in Workers |-> 0]
    /\ w_t = [w \in Workers |-> 0]
    /\ w_v = [w \in Workers |-> 0]
    /\ ma_in = <<>>
    /\ ma_w = 1
    /\ ma_out = [err |-> "idle", out |-> <<>>]
    /\ InitEPTScope

\* (read_crash needs a port closed under the read, which takes a handler)
NextSingle ==
    \/ thread_begin(1)
    \/ loop_head(1)
    \/ read_frame(1)
    \/ invalid_data(1)
    \/ read_error(1)
    \/ error_close(1)
    \/ append_timestamp(1)
    \/ append_data(1)
    \/ evict_oldest(1)
    \/ clock_tick
SpecSingle == InitSingle /\ [][NextSingle]_vars

\* ======================================================== EPTscope.py: EPTScope
\* EPTScope has no ingestion: its buffer is filled by open_signal only.  Its
\* handlers run one at a time on the GUI thread.  epc: "idle" between
\* handlers, "rec_saved" while the modal "Saved." box of toggle_recording(False)
\* is shown (timers fire, buttons do not), "exception" when an exception left
\* a slot.
mainVars == <<bufVars, ctlVars, guiVars, thrVars, nAppends, maVars>>

\* A line of a CSV file: <<"hdr">> the header, <<"row", t, y>> two numeric
\* fields, <<"iso", t, y>> a row of the recorder, whose first field is
\* datetime.now().isoformat().
EptImportFiles ==
    { <<>>,
      << <<"hdr">> >>,
      << <<"hdr">>, <<"row", 0, 3>> >>,
      << <<"hdr">>, <<"row", 0, 1>>, <<"row", 1, 2>> >> }

\* float(row[0]), float(row[1]) succeed on a row of two numbers only
csv_floats_ok(line) == line[1] = "row"

\* the y column of the rows of a recording
ys_of(lines) == [i \in 1..Len(lines) |-> lines[i][3]]

\* lines 325-328
start_acq ==
    /\ epc = "idle"
    /\ ept_is_running' = TRUE
    /\ UNCHANGED <<mainVars, now, buffer_t, buffer_y, record_fh, rec_checked, files,
                   nFiles, ept_curve, epc, armed_in, imported_from, nImports>>

\* lines 330-333
pause_acq ==
    /\ epc = "idle"
    /\ ept_is_running' = FALSE
    /\ UNCHANGED <<mainVars, now, buffer_t, buffer_y, record_fh, rec_checked, files,
                   nFiles, ept_curve, epc, armed_in, imported_from, nImports>>

\* lines 412-424: the file chosen is one written elsewhere or one of the
\* recordings (its content on disk).  next(r) skips the first line (StopIteration
\* on an empty file); a row whose fields are not numbers raises ValueError and
\* nothing is loaded; otherwise both lists are replaced and the curve redrawn.
EPT_open_signal ==
    /\ epc = "idle"
    /\ nImports < MaxImports
    /\ nImports' = nImports + 1
    /\ \E src \in 0..nFiles :
       \E content \in (IF src = 0 THEN EptImportFiles ELSE {files[src].disk}) :
         /\ imported_from' = src
         /\ IF content = <<>> \/ \E i \in 2..Len(content) : ~csv_floats_ok(content[i])
            THEN /\ epc' = "exception"
                 /\ UNCHANGED <<buffer_t, buffer_y, ept_curve, armed_in>>
            ELSE LET rows == Tail(content) IN
                 /\ buffer_t' = [i \in 1..Len(rows) |-> rows[i][2]]
                 /\ buffer_y' = ys_of(rows)
                 /\ ept_curve' = <<Len(rows), Len(rows)>>
                 /\ armed_in' = IF rec_checked /\ record_fh # 0
                                THEN armed_in \o ys_of(rows) ELSE armed_in
                 /\ UNCHANGED epc
    /\ UNCHANGED <<mainVars, now, ept_is_running, record_fh, rec_checked, files, nFiles>>

\* the traceback is printed and the event loop goes on
EPT_slot_exception ==
    /\ epc = "exception"
    /\ epc' = "idle"
    /\ UNCHANGED <<mainVars, now, buffer_t, buffer_y, ept_is_running, record_fh,
                   rec_checked, files, nFiles, ept_curve, armed_in, imported_from,
                   nImports>>

\* lines 335-341, every 30 ms (line 272): nothing unless running with data;
\* else the curve is redrawn and, when recording, ONE row is written:
\* [datetime.now().isoformat(), self.buffer_y[-1]].  The row goes to the file
\* object's buffer.
EPT_update_plot ==
    /\ epc \in {"idle", "rec_saved"}
    /\ ept_is_running /\ buffer_t # <<>> /\ buffer_y # <<>>
    /\ ept_curve' = <<Len(buffer_t), Len(buffer_y)>>
    /\ IF rec_checked /\ record_fh # 0
       THEN /\ Len(files[record_fh].pending) <= MaxRows
            /\ files' = [files EXCEPT ![record_fh].pending =
                            Append(@, <<"iso", now, buffer_y[Len(buffer_y)]>>)]
       ELSE UNCHANGED files
    /\ UNCHANGED <<mainVars, now, buffer_t, buffer_y, ept_is_running, record_fh,
                   rec_checked, nFiles, epc, armed_in, imported_from, nImports>>

\* lines 343-346
EPT_clear_screen ==
    /\ epc = "idle"
    /\ buffer_t' = <<>>
    /\ buffer_y' = <<>>
    /\ ept_curve' = <<0, 0>>
    /\ imported_from' = 0
    /\ UNCHANGED <<mainVars, now, ept_is_running, record_fh, rec_checked, files,
                   nFiles, epc, armed_in, nImports>>

\* lines 370-378, rec_btn toggled on: the dialog is cancelled (setChecked(False)
\* runs toggle_recording(False) inside the handler), or open() raises and the
\* button stays checked with no writer, or the file is opened, the writer
\* stored and the header row written
toggle_recording_on ==
    /\ epc = "idle"
    /\ ~rec_checked
    /\ \/ /\ epc' = "rec_saved"
          /\ UNCHANGED <<rec_checked, record_fh, files, nFiles, armed_in>>
       \/ /\ rec_checked' = TRUE
          /\ epc' = "exception"
          /\ UNCHANGED <<record_fh, files, nFiles, armed_in>>
       \/ /\ nFiles < MaxFiles
          /\ nFiles' = nFiles + 1
          /\ files' = [files EXCEPT ![nFiles + 1] =
                          [open |-> TRUE, disk |-> <<>>, pending |-> << <<"hdr">> >>]]
          /\ record_fh' = nFiles + 1
          /\ rec_checked' = TRUE
          /\ armed_in' = buffer_y
          /\ UNCHANGED epc
    /\ UNCHANGED <<mainVars, now, buffer_t, buffer_y, ept_is_running, ept_curve,
                   imported_from, nImports>>

\* lines 379-381, rec_btn toggled off: the label is reset and the modal
\* "Saved." box shown
toggle_recording_off ==
    /\ epc = "idle"
    /\ rec_checked
    /\ rec_checked' = FALSE
    /\ epc' = "rec_saved"
    /\ UNCHANGED <<mainVars, now, buffer_t, buffer_y, ept_is_running, record_fh,
                   files, nFiles, ept_curve, armed_in, imported_from, nImports>>

\* toggle_recording_drop_writer with the file object kept alive
toggle_recording_keep_file ==
    /\ epc = "rec_saved"
    /\ record_fh' = 0
    /\ epc' = "idle"
    /\ UNCHANGED <<mainVars, now, buffer_t, buffer_y, ept_is_running, rec_checked,
                   files, nFiles, ept_curve, armed_in, imported_from, nImports>>

\* line 382: self.record_fh = None.  The writer held the only reference to
\* the file object (f was a local of the call that opened it), so CPython
\* finalises the file here: its buffer is written out and it is closed.
toggle_recording_drop_writer ==
    /\ epc = "rec_saved"
    /\ record_fh' = 0
    /\ files' = IF record_fh = 0 THEN files
                ELSE [files EXCEPT ![record_fh] =
                         [open |-> FALSE, disk |-> @.disk \o @.pending, pending |-> <<>>]]
    /\ epc' = "idle"
    /\ UNCHANGED <<mainVars, now, buffer_t, buffer_y, ept_is_running, rec_checked,
                   nFiles, ept_curve, armed_in, imported_from, nImports>>

\* datetime.now() advances
EPT_clock_tick ==
    /\ now < MaxClock
    /\ now' = now + 1
    /\ UNCHANGED <<mainVars, eptVars>>

NextEPT ==
    \/ start_acq
    \/ pause_acq
    \/ EPT_open_signal
    \/ EPT_slot_exception
    \/ EPT_update_plot
    \/ EPT_clear_screen
    \/ toggle_recording_on
    \/ toggle_recording_off
    \/ toggle_recording_drop_writer
    \/ EPT_clock_tick

SpecEPT == Init /\ [][NextEPT]_vars


\* ===================================================================== claims
seqs_of(s) == [i \in 1..Len(s) |-> s[i].seq]

\* the i-th timestamp and the i-th value come from the same append
Paired(d, ts) == seqs_of(d) = seqs_of(ts)

\* C1: whenever no worker is inside its critical section, neither list holds
\* more than max_data_points entries.
C1_BufferWithinCapacity ==
    data_lock = 0 =>
        /\ Len(data) <= max_data_points
        /\ Len(timestamps) <= max_data_points

\* C2: with one worker and no other writer, after n appends to the empty
\* buffer both lists hold exactly the appends n - min(n, N) + 1 .. n, in order,
\* with the value and the timestamp the worker appended.
C2_LastNInOrder ==
    data_lock = 0 =>
        LET n == Min(nAppends, max_data_points) IN
        /\ Len(data) = n
        /\ Len(timestamps) = n
        /\ \A i \in 1..n :
             /\ data[i].seq = nAppends - n + i
             /\ timestamps[i].seq = nAppends - n + i
             /\ data[i].v = voltage_of(4095)
             /\ data[i].f = 0
             /\ timestamps[i].t \in 0..MaxClock
             /\ \A j \in i..n : timestamps[i].t <= timestamps[j].t

\* C2 witness: two samples more than the buffer holds were appended, and the
\* buffer is full
C2_Witness ==
    /\ nAppends = max_data_points + 2
    /\ data_lock = 0
    /\ Len(data) = max_data_points

\* C3: at every point where a consumer that takes no lock (compute_fft,
\* mouse_moved, the first test of apply_filter) can read the buffer, the two
\* lists have equal length and pair up append by append.
C3_ConsistentView ==
    mpc = "idle" => Paired(data, timestamps)

\* C4: every step of a start_signal called while is_running leaves the flag,
\* the transport handle, the buffer and the set of workers unchanged.
C4_StartWhileRunningIsNoOp ==
    [][ ( \/ (is_running /\ start_signal)
          \/ (m_from /\ (start_reset_data \/ start_reset_timestamps \/ start_thread)) )
        => /\ UNCHANGED <<is_running, ser, openSer, data, timestamps>>
           /\ {w \in Workers : wpc[w] # "none"}' = {w \in Workers : wpc[w] # "none"} ]_vars

\* pause_signal is called right after a completed pause_signal, or before any
\* start succeeded
PauseAgain == lastOp = "pause" \/ nOpened = 0

C6_ResumeKeepsHistory ==
    [][ (lastOp = "pause" /\ nOpened > 1 /\ (start_reset_data \/ start_reset_timestamps))
        => UNCHANGED <<data, timestamps>> ]_vars

\* C7: start_signal with no port selected (the placeholder, or no item at all)
\* shows the NoPortAvailable warning and changes nothing.
C7_NoPortRejected ==
    [][ (com_select \notin Ports /\ start_signal)
        => /\ mpc' = "warn_no_port"
           /\ UNCHANGED <<ser, openSer, nOpened, is_running, timer_active,
                          data, timestamps, wpc>> ]_vars

\* What the fields of the controller show after pause_signal, and before any start.
LooksPaused == ~is_running /\ ser # 0 /\ ser \notin openSer /\ ~timer_active
LooksIdle == ~is_running /\ ser = 0 /\ ~timer_active

\* C8: once a worker has handled a read error, acquisition is not running, the
\* transport is closed, and the controller shows a state that is neither the
\* paused nor the idle one.
C8_ReadErrorLeavesErrorState ==
    lastOp = "error" =>
        /\ ~is_running
        /\ ser \notin openSer
        /\ ~LooksPaused
        /\ ~LooksIdle

\* C9: pause_signal and closeEvent close the transport only when no worker is
\* alive.
C9_CloseAfterWorkerEnded ==
    [][ ((pause_close \/ close_close) /\ ser \in openSer)
        => \A w \in Workers : ~Alive(w) ]_vars

\* C10: moving_average gives n - w + 1 outputs when w <= n and none when w > n.
C10_MovingAverageLength ==
    ma_out.err # "idle" =>
        /\ ma_out.err = "none"
        /\ ma_w <= Len(ma_in) => Len(ma_out.out) = Len(ma_in) - ma_w + 1
        /\ ma_w > Len(ma_in) => ma_out.out = <<>>

\* a is an initial part of b
IsPrefix(a, b) == Len(a) <= Len(b) /\ SubSeq(b, 1, Len(a)) = a

\* the rows written to recording f so far, the header left out
recorded_rows(f) == Tail(files[f].disk \o files[f].pending)

\* C11: while recording is armed, the rows of the sink are, in order and once
\* each, the samples that were in the buffer at the arm or entered it since
\* (the sink may lag by the samples of the current tick, so its rows are an
\* initial part of them).
C11_EverySampleOnce ==
    (rec_checked /\ record_fh # 0) =>
        IsPrefix(ys_of(recorded_rows(record_fh)), armed_in)

\* C12: whenever toggle_recording has returned and recording is disarmed, no
\* writer is held and every sink is closed with nothing left unwritten; and the
\* end of a disarm that had no writer to drop changes no file and no buffer.
C12_DisarmedNoOpenSink ==
    /\ [] ( (epc = "idle" /\ ~rec_checked) =>
              /\ record_fh = 0
              /\ \A f \in 1..MaxFiles : ~files[f].open /\ files[f].pending = <<>> )
    /\ [][ (epc = "rec_saved" /\ epc' = "idle" /\ record_fh = 0)
           => UNCHANGED <<files, nFiles, buffer_t, buffer_y, ept_is_running,
                          rec_checked, record_fh>> ]_vars

\* C12 witness: a recording that received a sample row has been disarmed: it is
\* closed and its rows are on disk
C12_Witness ==
    /\ epc = "idle"
    /\ ~rec_checked
    /\ nFiles > 0
    /\ ~files[1].open
    /\ Len(files[1].disk) > 1

\* C13: open_signal on a finished recording does not fail, and leaves in the
\* buffer the recorded rows, all of them, in order.
C13_RecordingRoundTrip ==
    [][ (nImports' = nImports + 1 /\ imported_from' # 0 /\ ~files[imported_from'].open)
        => /\ epc' # "exception"
           /\ buffer_y' = ys_of(Tail(files[imported_from'].disk))
           /\ Len(buffer_t') = Len(buffer_y') ]_vars

\* C14: compute_fft on a buffer of fewer than 2 samples ends in an
\* insufficient-data report, raises nothing, and leaves buffer and plot alone.
C14_FftInsufficientReported ==
    [][ (mpc = "idle" /\ compute_fft /\ Len(data) < 2)
        => /\ mpc' = "warn_insufficient_data"
           /\ UNCHANGED <<data, timestamps, curve>> ]_vars

\* C15: apply_filter on a buffer of fewer than 3 x order samples ends in the
\* insufficient-data report, takes no snapshot and never writes the buffer.
C15_FilterInsufficientReported ==
    [][ /\ (mpc = "idle" /\ apply_filter /\ Len(data) < 3 * filter_order)
            => (mpc' \in Dialogs /\ UNCHANGED <<data, timestamps, signal_data>>)
        /\ (filter_write_back /\ Len(signal_data) < 3 * filter_order)
            => UNCHANGED <<data, timestamps>> ]_vars

\* C16: no step of a processing operation (apply_filter, update_plot,
\* compute_fft) changes either list of the buffer.
C16_ProcessingReadOnly ==
    [][ ( \/ apply_filter \/ filter_write_back \/ filter_update_plot
          \/ update_plot \/ compute_fft )
        => UNCHANGED <<data, timestamps>> ]_vars

\* C17: whenever the running flag is low, either it is raised again (a start
\* follows) or every read_data thread eventually has returned.
C17_WorkersStop ==
    (~is_running) ~> (is_running \/ \A w \in Workers : ~Alive(w))

\* C17 witness: pause_signal lowered the flag of a session whose thread had
\* buffered a sample, and that thread has returned
C17_Witness ==
    /\ lastOp = "pause"
    /\ ~is_running
    /\ nAppends > 0
    /\ wpc[1] = "done"

\* C19: in every state the timestamps in the buffer are non-decreasing in
\* insertion order.
C19_TimestampsNonDecreasing ==
    \A i \in 1..Len(timestamps) : \A j \in i..Len(timestamps) :
        timestamps[i].t <= timestamps[j].t

\* C20: at most one read_data thread is alive at any time.
C20_OneWorkerAlive ==
    Cardinality({w \in Workers : Alive(w)}) <= 1

\* C18: a step in which a thread's read ends without a sample (undecodable
\* bytes, no run of digits, an empty read) leaves the buffer, the running flag,
\* the timer and the transport as they were, and the thread goes on to its
\* loop head, through the ValueError handler for the undecodable bytes.
C18_MalformedFrameDiscarded ==
    [][ \A w \in Workers :
          /\ (wpc[w] = "read" /\ wpc'[w] \in {"head", "invalid"})
                => UNCHANGED <<bufVars, ctlVars>>
          /\ (wpc[w] = "invalid" /\ wpc'[w] # "invalid")
                => (wpc'[w] = "head" /\ UNCHANGED <<bufVars, ctlVars>>) ]_vars

\* C18 witness: with a sample buffered and acquisition running, a thread is in
\* the handler of an undecodable frame
C18_Witness ==
    /\ is_running
    /\ data # <<>>
    /\ \E w \in Workers : wpc[w] = "invalid"

\* C21: on a display tick with a non-empty buffer, the x and y sequences that
\* update_plot hands to plot_curve.setData have equal length.
C21_PlotLengthsEqual ==
    [][ (update_plot /\ data # <<>> /\ timestamps # <<>>)
        => curve'[1] = curve'[2] ]_vars

\* C22: both steps of a start_signal whose open fails (the raise out of
\* serial.Serial, the except clause) leave the running flag, the transport
\* handle, the ports, the buffer, the display timer and the threads as they were.
C22_FailedOpenChangesNothing ==
    [][ ((mpc = "idle" /\ mpc' = "start_failed") \/ (mpc = "start_failed" /\ mpc' = "idle"))
        => UNCHANGED <<is_running, ser, openSer, nOpened, timer_active,
                       data, timestamps, wpc>> ]_vars

\* C22 witness: after a session that buffered a sample was paused, a start has
\* failed to open the port
C22_Witness ==
    /\ mpc = "start_failed"
    /\ ~is_running
    /\ ser # 0
    /\ data # <<>>

====
